---- MODULE Spec2Model ----
(***************************************************************************)
(* Model of devops/setup_application_consistent_backup_opensource.py:      *)
(* the provisioner that creates /etc/azure and (re)writes three fixed      *)
(* artifacts into it with explicit permission bits.                        *)
(*                                                                         *)
(* The filesystem is the shared state.  A run of main() is a process that  *)
(* walks through its system calls one at a time (privilege check, makedirs,*)
(* and for each artifact open-truncate, write, chmod), so that sequential  *)
(* re-runs (Spec) and two concurrent invocations (SpecConc) are both       *)
(* behaviours of the same actions.  Every OS operation that can raise may  *)
(* fail, within a fault budget.                                            *)
(***************************************************************************)
EXTENDS Integers, Sequences, FiniteSets, TLC

\* ------------------------------------------------------------------ bounds
MaxRuns == 2      \* sequential runs of main() by one operator (Spec)
MaxFaults == 3    \* OS operations that fail for an external reason (Spec)
MaxFaultsConc == 1 \* the same budget under SpecConc

\* --------------------------------------------------------------- constants
\* stat.S_IRUSR, stat.S_IWUSR, stat.S_IRWXU as used on lines 161-169
S_IRUSR == 256
S_IWUSR == 128
S_IRWXU == 448
\* creation modes asked for by open(path, 'w') and os.makedirs (0666, 0777)
FileCreateMode == 438
DirCreateMode == 511
\* the uid os.geteuid() returns for root, line 132
ROOT_UID == 0

Procs == {1, 2}
Artifacts == {"config", "pre", "post"}
Paths == Artifacts \cup {"other"}

\* The three literal contents, lines 14-100, as distinct one-block texts.
PRE_BACKUP_CONTENT == <<"pre_backup.sh text">>
POST_BACKUP_CONTENT == <<"post_backup.sh text">>
CONFIG_CONTENT == <<"plugin config json">>

\* A file left by somebody else: longer than any artifact, mode 0644.
StaleContent == <<"old block 1", "old block 2">>

NoFile == [exists |-> FALSE, content |-> <<>>, mode |-> 0]
StaleFile == [exists |-> TRUE, content |-> StaleContent, mode |-> 420]
\* a directory /etc/azure made by somebody else has mode 0750
OldDir == [mode |-> 488]

\* ------------------------------------------------------------ bit helpers
RECURSIVE BitAnd(_, _)
BitAnd(a, b) ==
    IF a = 0 \/ b = 0 THEN 0
    ELSE (IF a % 2 = 1 /\ b % 2 = 1 THEN 1 ELSE 0) + 2 * BitAnd(a \div 2, b \div 2)

RECURSIVE BitOr(_, _)
BitOr(a, b) ==
    IF a = 0 THEN b
    ELSE IF b = 0 THEN a
    ELSE (IF a % 2 = 1 \/ b % 2 = 1 THEN 1 ELSE 0) + 2 * BitOr(a \div 2, b \div 2)

\* mode & ~umask, over the nine permission bits
MaskMode(mode, um) == BitAnd(mode, 511 - um)

Min(a, b) == IF a < b THEN a ELSE b

VARIABLES
    hasGeteuid,  \* hasattr(os, 'geteuid'): the platform has effective uids
    umask,       \* the process umask the invocations inherit
    parent,      \* what is at /etc:        "absent" | "dir" | "file"
    dir,         \* what is at /etc/azure:  "absent" | "dir" | "file"
    dirMode,     \* permission bits of /etc/azure when it is a directory
    fs,          \* the entries inside /etc/azure, by name
    pc,          \* position of each invocation of main()
    euid,        \* os.geteuid() of each invocation
    idx,         \* which of the three calls of lines 161-169 is running
    off,         \* file offset of the descriptor open() returned
    success,     \* the local variable success of main()
    exitCode,    \* exit status of the invocation, -1 while running
    dirRes,      \* outcome of create_directory_if_not_exists
    calls,       \* calls of create_file_with_content_and_permissions
    oserr,       \* an OS operation raised during this run
    start,       \* the filesystem when the run started
    prevRun,     \* exit status and artifacts at the end of the previous run
    runs,        \* runs started by each operator
    budget,      \* external faults that may still happen
    raced        \* two invocations were inside the same artifact at once

vars == <<hasGeteuid, umask, parent, dir, dirMode, fs, pc, euid, idx, off,
          success, exitCode, dirRes, calls, oserr, start, prevRun, runs, budget, raced>>

fsvars == <<parent, dir, dirMode, fs>>
envvars == <<hasGeteuid, umask>>

FS == [parent |-> parent, dir |-> dir, dirMode |-> dirMode, fs |-> fs]
ArtState(f) == [a \in Artifacts |-> f[a]]

\* ----------------------------------------------- the fixed artifact table
\* order of the calls in main(), lines 161, 165, 169
ArtifactOrder == <<"config", "pre", "post">>

Content(a) ==
    CASE a = "config" -> CONFIG_CONTENT
      [] a = "pre" -> PRE_BACKUP_CONTENT
      [] a = "post" -> POST_BACKUP_CONTENT

PermMutant(a) == S_IRWXU
Perm(a) ==
    CASE a = "config" -> BitOr(S_IRUSR, S_IWUSR)
      [] a = "pre" -> S_IRWXU
      [] a = "post" -> S_IRWXU

\* ---------------------------------------------------------- main(): guards
\* line 132: the run goes on unless the platform has uids and this is not root
PrivilegeOKMutant(h, e) == TRUE
PrivilegeOK(h, e) == ~(h /\ e # ROOT_UID)

\* lines 154-155: where main() goes after the directory step
AfterDirectoryMutant(ok) == "open"
AfterDirectory(ok) == IF ok THEN "open" ELSE "done"

\* lines 161-170: success becomes False when a call returns False
AggregateMutant(s, ok) == ok
Aggregate(s, ok) == IF ~ok THEN FALSE ELSE s

\* lines 161-170: the three calls follow each other whatever they return
AfterArtifactMutant(i, ok) ==
    IF ~ok THEN "finish" ELSE IF i < Len(ArtifactOrder) THEN "open" ELSE "finish"
AfterArtifact(i, ok) == IF i < Len(ArtifactOrder) THEN "open" ELSE "finish"

\* lines 172-186: falling off main() is status 0, sys.exit(1) otherwise
ExitStatusMutant(s) == 0
ExitStatus(s) == IF s THEN 0 ELSE 1

\* ------------------------------------------------------ the OS operations
\* os.makedirs("/etc/azure", exist_ok=True), line 105.  fault: the mkdir of
\* the leaf fails for an external reason (read-only filesystem, no space);
\* it can only hit a mkdir that has something to create.
MakedirsMutant(par, d, dm, um, fault) ==
    IF par = "file" \/ d # "absent" \/ fault
    THEN [ok |-> FALSE, parent |-> IF par = "absent" THEN "dir" ELSE par,
          dir |-> d, dirMode |-> dm]
    ELSE [ok |-> TRUE, parent |-> "dir", dir |-> "dir",
          dirMode |-> MaskMode(DirCreateMode, um)]
Makedirs(par, d, dm, um, fault) ==
    CASE par = "file" ->
            \* mkdir under a regular file: ENOTDIR, and the leaf is no directory
            [ok |-> FALSE, parent |-> par, dir |-> d, dirMode |-> dm]
      [] par # "file" /\ d = "dir" ->
            \* EEXIST, swallowed because exist_ok and the path is a directory
            [ok |-> TRUE, parent |-> par, dir |-> d, dirMode |-> dm]
      [] par # "file" /\ d = "file" ->
            \* EEXIST and not a directory: re-raised
            [ok |-> FALSE, parent |-> par, dir |-> d, dirMode |-> dm]
      [] par # "file" /\ d = "absent" ->
            \* a missing parent is created first, then the leaf
            IF fault
            THEN [ok |-> FALSE, parent |-> "dir", dir |-> d, dirMode |-> dm]
            ELSE [ok |-> TRUE, parent |-> "dir", dir |-> "dir",
                  dirMode |-> MaskMode(DirCreateMode, um)]

\* open(path, 'w'), line 116: O_CREAT|O_TRUNC, offset 0.  An existing file
\* keeps its mode, a new one gets 0666 & ~umask.
OpenWMutant(f, um) ==
    [file |-> IF f.exists THEN f
              ELSE [exists |-> TRUE, content |-> <<>>,
                    mode |-> MaskMode(FileCreateMode, um)],
     offset |-> Len(f.content)]
OpenW(f, um) ==
    [file |-> [exists |-> TRUE, content |-> <<>>,
               mode |-> IF f.exists THEN f.mode
                        ELSE MaskMode(FileCreateMode, um)],
     offset |-> 0]

\* f.write(content) and the close of the with block, lines 116-117: the
\* data go to the descriptor's offset and replace what is there.
WriteAtMutant(f, o, data) == [f EXCEPT !.content = @ \o data]
WriteAt(f, o, data) ==
    LET at == Min(o, Len(f.content))
    IN [f EXCEPT !.content = SubSeq(@, 1, at) \o data
                             \o SubSeq(@, at + Len(data) + 1, Len(@))]

\* os.chmod(path, permissions), line 121
ChmodMutant(f, m) == [f EXCEPT !.mode = BitOr(@, m)]
Chmod(f, m) == [f EXCEPT !.mode = m]

\* ------------------------------------------------------------------- Init
InitFS ==
    \/ /\ parent \in {"absent", "file", "dir"}
       /\ dir = "absent"
       /\ dirMode = 0
       /\ fs = [x \in Paths |-> NoFile]
    \/ /\ parent = "dir"
       /\ dir = "file"
       /\ dirMode = 0
       /\ fs = [x \in Paths |-> NoFile]
    \/ /\ parent = "dir"
       /\ dir = "dir"
       /\ dirMode = OldDir.mode
       /\ fs \in [Paths -> {NoFile, StaleFile}]

NoPrev == [code |-> -1, arts |-> ArtState([x \in Paths |-> NoFile])]

InitCommon ==
    /\ raced = FALSE
    /\ umask \in {18, 63}
    /\ InitFS
    /\ idx = [p \in Procs |-> 0]
    /\ off = [p \in Procs |-> 0]
    /\ success = [p \in Procs |-> TRUE]
    /\ exitCode = [p \in Procs |-> -1]
    /\ dirRes = [p \in Procs |-> "none"]
    /\ calls = [p \in Procs |-> <<>>]
    /\ oserr = [p \in Procs |-> FALSE]
    /\ start = [p \in Procs |-> FS]
    /\ prevRun = [p \in Procs |-> NoPrev]

\* what os.geteuid() can return on this platform: root or an ordinary
\* user, and -1 stands for a platform without effective uids
Uids == IF hasGeteuid THEN {ROOT_UID, 1000} ELSE {-1}

\* one operator, who may run the tool again when it has exited
Init ==
    /\ hasGeteuid \in BOOLEAN
    /\ InitCommon
    /\ pc = [p \in Procs |-> IF p = 1 THEN "priv" ELSE "off"]
    /\ \E e \in Uids : euid = [p \in Procs |-> IF p = 1 THEN e ELSE -1]
    /\ runs = [p \in Procs |-> IF p = 1 THEN 1 ELSE 0]
    /\ budget = MaxFaults

\* two invocations started at the same time
InitConc ==
    /\ hasGeteuid = TRUE
    /\ InitCommon
    /\ pc = [p \in Procs |-> "priv"]
    /\ euid \in [Procs -> Uids]
    /\ euid[1] = ROOT_UID
    /\ runs = [p \in Procs |-> 1]
    /\ budget = MaxFaultsConc

\* ---------------------------------------------------------------- actions
\* an OS operation either works or, while the budget lasts, fails
Faults == IF budget > 0 THEN {FALSE, TRUE} ELSE {FALSE}
Spend(fault) == budget' = IF fault THEN budget - 1 ELSE budget

\* history: both invocations hold a descriptor of the same artifact
Overlap ==
    raced' = (raced \/ (/\ pc'[1] \in {"write", "chmod"}
                        /\ pc'[2] \in {"write", "chmod"}
                        /\ idx'[1] = idx'[2]))

\* lines 131-135
CheckPrivilege(p) ==
    /\ pc[p] = "priv"
    /\ IF PrivilegeOK(hasGeteuid, euid[p])
       THEN /\ pc' = [pc EXCEPT ![p] = "mkdir"]
            /\ exitCode' = exitCode
       ELSE /\ pc' = [pc EXCEPT ![p] = "done"]
            /\ exitCode' = [exitCode EXCEPT ![p] = 1]
    /\ UNCHANGED <<fsvars, envvars, euid, idx, off, success, dirRes, calls,
                   oserr, start, prevRun, runs, budget, raced>>

\* lines 153-158 with create_directory_if_not_exists, lines 102-110
CreateDirectory(p) ==
    /\ pc[p] = "mkdir"
    /\ \E fault \in Faults :
         LET r == Makedirs(parent, dir, dirMode, umask, fault)
         IN /\ parent' = r.parent
            /\ dir' = r.dir
            /\ dirMode' = r.dirMode
            /\ dirRes' = [dirRes EXCEPT ![p] = IF r.ok THEN "ok" ELSE "fail"]
            /\ oserr' = [oserr EXCEPT ![p] = @ \/ ~r.ok]
            /\ pc' = [pc EXCEPT ![p] = AfterDirectory(r.ok)]
            /\ idx' = [idx EXCEPT ![p] = IF AfterDirectory(r.ok) = "open" THEN 1 ELSE @]
            /\ success' = [success EXCEPT ![p] = TRUE]
            /\ exitCode' = [exitCode EXCEPT ![p] = IF AfterDirectory(r.ok) = "done" THEN 1 ELSE @]
            /\ budget' = IF fault /\ parent # "file" /\ dir = "absent"
                         THEN budget - 1 ELSE budget
    /\ UNCHANGED <<fs, envvars, euid, off, calls, start, prevRun, runs, raced>>

\* the return of create_file_with_content_and_permissions into main():
\* lines 124/127, then lines 161-170
Return(p, ok, stage, mb) ==
    /\ calls' = [calls EXCEPT ![p] = [@ EXCEPT ![Len(@)] =
                   [art |-> ArtifactOrder[idx[p]],
                    ret |-> IF ok THEN "True" ELSE "False",
                    failedAt |-> stage, modeBefore |-> mb]]]
    /\ success' = [success EXCEPT ![p] = Aggregate(@, ok)]
    /\ pc' = [pc EXCEPT ![p] = AfterArtifact(idx[p], ok)]
    /\ idx' = [idx EXCEPT ![p] = IF AfterArtifact(@, ok) = "open" THEN @ + 1 ELSE @]

Entered(p) ==
    [calls EXCEPT ![p] = Append(@, [art |-> ArtifactOrder[idx[p]], ret |-> "running",
                                    failedAt |-> "none", modeBefore |-> 0])]

\* lines 112-116: the call and its open(file_path, 'w')
OpenFile(p) ==
    /\ pc[p] = "open"
    /\ LET a == ArtifactOrder[idx[p]]
       IN \E fault \in Faults :
            IF fault \/ dir # "dir"
            THEN \* open raises: nothing is created or truncated
                 /\ calls' = [Entered(p) EXCEPT ![p] = [@ EXCEPT ![Len(@)] =
                                [art |-> a, ret |-> "False", failedAt |-> "open",
                                 modeBefore |-> fs[a].mode]]]
                 /\ success' = [success EXCEPT ![p] = Aggregate(@, FALSE)]
                 /\ pc' = [pc EXCEPT ![p] = AfterArtifact(idx[p], FALSE)]
                 /\ idx' = [idx EXCEPT ![p] = IF AfterArtifact(@, FALSE) = "open" THEN @ + 1 ELSE @]
                 /\ oserr' = [oserr EXCEPT ![p] = TRUE]
                 /\ budget' = IF dir = "dir" THEN budget - 1 ELSE budget
                 /\ UNCHANGED <<fs, off>>
            ELSE /\ fs' = [fs EXCEPT ![a] = OpenW(@, umask).file]
                 /\ off' = [off EXCEPT ![p] = OpenW(fs[a], umask).offset]
                 /\ calls' = Entered(p)
                 /\ pc' = [pc EXCEPT ![p] = "write"]
                 /\ UNCHANGED <<success, idx, oserr, budget>>
    /\ Overlap
    /\ UNCHANGED <<parent, dir, dirMode, envvars, euid, exitCode, dirRes,
                   start, prevRun, runs>>

\* lines 116-118: f.write(content) and the flush at the end of the with block
WriteFile(p) ==
    /\ pc[p] = "write"
    /\ LET a == ArtifactOrder[idx[p]]
       IN \E fault \in Faults :
            /\ Spend(fault)
            /\ IF fault
               THEN /\ Return(p, FALSE, "write", fs[a].mode)
                    /\ oserr' = [oserr EXCEPT ![p] = TRUE]
                    /\ fs' = fs
               ELSE /\ fs' = [fs EXCEPT ![a] = WriteAt(@, off[p], Content(a))]
                    /\ pc' = [pc EXCEPT ![p] = "chmod"]
                    /\ calls' = [calls EXCEPT ![p] = [@ EXCEPT ![Len(@)] =
                                   [@ EXCEPT !.modeBefore = fs[a].mode]]]
                    /\ UNCHANGED <<success, idx, oserr>>
    /\ Overlap
    /\ UNCHANGED <<parent, dir, dirMode, envvars, euid, off, exitCode, dirRes,
                   start, prevRun, runs>>

\* lines 120-127: os.chmod(file_path, permissions) and the return
ChmodFile(p) ==
    /\ pc[p] = "chmod"
    /\ LET a == ArtifactOrder[idx[p]]
       IN \E fault \in Faults :
            /\ Spend(fault)
            /\ IF fault
               THEN /\ Return(p, FALSE, "chmod", calls[p][Len(calls[p])].modeBefore)
                    /\ oserr' = [oserr EXCEPT ![p] = TRUE]
                    /\ fs' = fs
               ELSE /\ fs' = [fs EXCEPT ![a] = Chmod(@, Perm(a))]
                    /\ Return(p, TRUE, "none", calls[p][Len(calls[p])].modeBefore)
                    /\ oserr' = oserr
    /\ Overlap
    /\ UNCHANGED <<parent, dir, dirMode, envvars, euid, off, exitCode, dirRes,
                   start, prevRun, runs>>

\* lines 172-186
Finish(p) ==
    /\ pc[p] = "finish"
    /\ exitCode' = [exitCode EXCEPT ![p] = ExitStatus(success[p])]
    /\ pc' = [pc EXCEPT ![p] = "done"]
    /\ UNCHANGED <<fsvars, envvars, euid, idx, off, success, dirRes, calls,
                   oserr, start, prevRun, runs, budget, raced>>

\* the operator runs the tool again (lines 188-189, a new process)
Rerun(p) ==
    /\ pc[p] = "done"
    /\ runs[p] < MaxRuns
    /\ runs' = [runs EXCEPT ![p] = @ + 1]
    /\ \E e \in Uids : euid' = [euid EXCEPT ![p] = e]
    /\ pc' = [pc EXCEPT ![p] = "priv"]
    /\ idx' = [idx EXCEPT ![p] = 0]
    /\ off' = [off EXCEPT ![p] = 0]
    /\ success' = [success EXCEPT ![p] = TRUE]
    /\ exitCode' = [exitCode EXCEPT ![p] = -1]
    /\ dirRes' = [dirRes EXCEPT ![p] = "none"]
    /\ calls' = [calls EXCEPT ![p] = <<>>]
    /\ oserr' = [oserr EXCEPT ![p] = FALSE]
    /\ start' = [start EXCEPT ![p] = FS]
    /\ prevRun' = [prevRun EXCEPT ![p] = [code |-> exitCode[p], arts |-> ArtState(fs)]]
    /\ UNCHANGED <<fsvars, envvars, budget, raced>>

Next ==
    \/ CheckPrivilege(1)
    \/ CreateDirectory(1)
    \/ OpenFile(1)
    \/ WriteFile(1)
    \/ ChmodFile(1)
    \/ Finish(1)
    \/ Rerun(1)

NextConc ==
    \E p \in Procs :
        \/ CheckPrivilege(p)
        \/ CreateDirectory(p)
        \/ OpenFile(p)
        \/ WriteFile(p)
        \/ ChmodFile(p)
        \/ Finish(p)

Spec == Init /\ [][Next]_vars
SpecConc == InitConc /\ [][NextConc]_vars

\* ------------------------------------------------------------ properties
\* what the specification says each artifact holds: literal text, 0600/0700
Expected(a) ==
    CASE a = "config" -> [exists |-> TRUE, content |-> CONFIG_CONTENT, mode |-> 384]
      [] a = "pre" -> [exists |-> TRUE, content |-> PRE_BACKUP_CONTENT, mode |-> 448]
      [] a = "post" -> [exists |-> TRUE, content |-> POST_BACKUP_CONTENT, mode |-> 448]

\* the run is by root, or on a platform that has no effective uid to check
Elevated(p) == ~hasGeteuid \/ euid[p] = ROOT_UID
NonElevated(p) == hasGeteuid /\ euid[p] # ROOT_UID

Running(p) == pc[p] # "off"
Done(p) == pc[p] = "done"
Rets(p) == [i \in 1..Len(calls[p]) |-> calls[p][i].ret]
Arts(p) == [i \in 1..Len(calls[p]) |-> calls[p][i].art]

\* C1: a run by a non-elevated user (effective uid other than 0) never
\* changes the filesystem, never reaches the directory step or an artifact,
\* and ends with exit code 1.
C1_NonElevatedNoChange ==
    \A p \in Procs :
        (Running(p) /\ NonElevated(p)) =>
            /\ FS = start[p]
            /\ dirRes[p] = "none"
            /\ calls[p] = <<>>
            /\ pc[p] \in {"priv", "done"}
            /\ Done(p) => exitCode[p] = 1

C1_Witness ==
    /\ Done(1) /\ NonElevated(1) /\ exitCode[1] = 1
    /\ start[1].dir = "dir" /\ start[1].fs["pre"] = StaleFile

\* C2: an elevated run that started with /etc/azure absent and in which no
\* OS operation failed ends with the directory, exactly the three files with
\* their literal content and modes 0600, 0700, 0700, and exit code 0.
C2_FreshInstall ==
    \A p \in Procs :
        (Done(p) /\ Elevated(p) /\ start[p].dir = "absent" /\ ~oserr[p]) =>
            /\ parent = "dir" /\ dir = "dir"
            /\ \A a \in Artifacts : fs[a] = Expected(a)
            /\ \A x \in Paths \ Artifacts : ~fs[x].exists
            /\ exitCode[p] = 0

C2_Witness ==
    /\ Done(1) /\ Elevated(1) /\ start[1].dir = "absent" /\ start[1].parent = "absent"
    /\ ~oserr[1] /\ exitCode[1] = 0 /\ dir = "dir"
    /\ fs["config"].mode = 384 /\ fs["post"].content = POST_BACKUP_CONTENT

\* C3: when a run that exited 0 is followed by a second run that exits 0,
\* content and permission bits of the three artifacts after the second run
\* are those after the first, whatever the filesystem was before the first.
C3_Idempotent ==
    \A p \in Procs :
        (Done(p) /\ exitCode[p] = 0 /\ prevRun[p].code = 0) =>
            ArtState(fs) = prevRun[p].arts

C3_Witness ==
    /\ Done(1) /\ exitCode[1] = 0 /\ prevRun[1].code = 0 /\ runs[1] = 2
    /\ start[1].fs["config"] = Expected("config")
    /\ fs["config"] = Expected("config")

\* C4: when create_directory_if_not_exists returns False the run has exit
\* code 1 and create_file_with_content_and_permissions is never called: the
\* three artifacts are as they were when the run started.
C4_DirectoryFailureStops ==
    \A p \in Procs :
        dirRes[p] = "fail" =>
            /\ Done(p) /\ exitCode[p] = 1
            /\ calls[p] = <<>>
            /\ ArtState(fs) = ArtState(start[p].fs)

C4_Witness ==
    /\ Done(1) /\ dirRes[1] = "fail" /\ start[1].dir = "file" /\ exitCode[1] = 1
    /\ dir = "file"

\* C5: once the directory step has succeeded the calls made so far are the
\* first calls of (config, pre, post), one per artifact and in that order,
\* whatever each of them returned, and the run is over only after the third.
C5_ThreeAttemptsInOrder ==
    \A p \in Procs :
        /\ calls[p] # <<>> => dirRes[p] = "ok"
        /\ dirRes[p] = "ok" =>
            /\ Len(calls[p]) <= Len(ArtifactOrder)
            /\ Arts(p) = SubSeq(ArtifactOrder, 1, Len(calls[p]))
            /\ Done(p) => /\ Len(calls[p]) = Len(ArtifactOrder)
                          /\ \A i \in 1..Len(calls[p]) : calls[p][i].ret \in {"True", "False"}

C5_Witness ==
    /\ Done(1) /\ dirRes[1] = "ok"
    /\ Rets(1) = <<"False", "False", "True">>
    /\ Arts(1) = <<"config", "pre", "post">>

\* C6: the exit code is 0 exactly when the run is elevated and no OS
\* operation of the directory step or of the three artifacts failed; in
\* every other case it is 1.
C6_ExitCode ==
    \A p \in Procs :
        Done(p) =>
            /\ exitCode[p] = IF Elevated(p) /\ ~oserr[p] THEN 0 ELSE 1
            /\ exitCode[p] = 0 =>
                 /\ dirRes[p] = "ok"
                 /\ Rets(p) = <<"True", "True", "True">>

C6_Witness ==
    /\ Done(1) /\ Elevated(1) /\ exitCode[1] = 1
    /\ Rets(1) = <<"False", "True", "True">>
    /\ calls[1][1].failedAt = "chmod"

\* C7 as stated: only the privilege error stops the run, so every run that
\* passed the privilege check attempts the three artifacts before it exits
\* (also after a directory-creation error).
C7_OnlyPrivilegeStops ==
    \A p \in Procs :
        (Done(p) /\ Elevated(p)) => Len(calls[p]) = Len(ArtifactOrder)

\* C7 amended: the privilege error and the directory-creation error stop
\* the run before any artifact; a file-write or permission-set error does
\* not: the artifacts after the failed one are still attempted and the run
\* then exits with code 1.
C7_WriteErrorsDoNotStop ==
    \A p \in Procs :
        /\ (Done(p) /\ (NonElevated(p) \/ dirRes[p] = "fail")) =>
              (calls[p] = <<>> /\ exitCode[p] = 1)
        /\ \A i \in 1..Len(calls[p]) :
              calls[p][i].ret = "False" =>
                 /\ calls[p][i].failedAt \in {"open", "write", "chmod"}
                 /\ pc[p] \in {"open", "write", "chmod", "finish", "done"}
                 /\ pc[p] \in {"finish", "done"} => Len(calls[p]) = Len(ArtifactOrder)
                 /\ Done(p) => exitCode[p] = 1

C7_Witness ==
    /\ Done(1) /\ exitCode[1] = 1 /\ Len(calls[1]) = 3
    /\ calls[1][1].failedAt = "write"
    /\ calls[1][2].ret = "True" /\ calls[1][3].ret = "True"
    /\ fs["post"] = Expected("post")

\* C8: a call of create_file_with_content_and_permissions that returned True
\* left the file with exactly the content and the mode it was given; a call
\* whose write succeeded and whose chmod failed returned False and left the
\* file with the new content and the mode it had before the chmod.
C8_WriteArtifact ==
    \A i \in 1..Len(calls[1]) :
        LET c == calls[1][i]
        IN /\ c.ret = "True" => fs[c.art] = Expected(c.art)
           /\ c.failedAt = "chmod" =>
                /\ c.ret = "False"
                /\ fs[c.art].exists
                /\ fs[c.art].content = Expected(c.art).content
                /\ fs[c.art].mode = c.modeBefore

C8_Witness ==
    /\ Len(calls[1]) >= 1
    /\ calls[1][1].failedAt = "chmod" /\ calls[1][1].ret = "False"
    /\ start[1].fs["config"] = StaleFile
    /\ fs["config"].content = CONFIG_CONTENT
    /\ fs["config"].mode = StaleFile.mode /\ fs["config"].mode # 384

\* C9: when /etc/azure is a directory at the start of the run, the directory
\* step returns True and changes nothing, and during the whole run /etc,
\* /etc/azure, its mode and the entries that are not artifacts stay as they
\* were.
C9_ExistingDirectoryUntouched ==
    \A p \in Procs :
        (Running(p) /\ start[p].dir = "dir") =>
            /\ dirRes[p] # "fail"
            /\ (dirRes[p] = "ok" /\ calls[p] = <<>>) => FS = start[p]
            /\ parent = start[p].parent
            /\ dir = "dir"
            /\ dirMode = start[p].dirMode
            /\ \A x \in Paths \ Artifacts : fs[x] = start[p].fs[x]

C9_Witness ==
    /\ Done(1) /\ exitCode[1] = 0 /\ start[1].dir = "dir"
    /\ start[1].fs["other"] = StaleFile /\ fs["other"] = StaleFile
    /\ dirMode = OldDir.mode /\ start[1].fs["config"] = NoFile

\* C10: two elevated invocations that ran concurrently without any OS
\* operation failing have both exited 0 and the three artifacts have the
\* content and the mode a single successful run gives them.
C10_ConcurrentRuns ==
    (/\ \A p \in Procs : Done(p) /\ Elevated(p) /\ ~oserr[p]) =>
        /\ \A a \in Artifacts : fs[a] = Expected(a)
        /\ \A p \in Procs : exitCode[p] = 0

C10_Witness ==
    /\ \A p \in Procs : Done(p) /\ Elevated(p) /\ ~oserr[p] /\ exitCode[p] = 0
    /\ raced
    /\ start[1].fs["config"] = StaleFile
    /\ fs["config"] = Expected("config")

====
